---- MODULE Spec2Model ----
(***************************************************************************)
(* The loopback OAuth redirect-capture server of                           *)
(* apps/desktop/src-tauri/src/lib.rs: start_oauth_server (the caller's     *)
(* path and the worker thread it spawns), generate_nonce, cors_headers and *)
(* the process-wide nonce map.                                             *)
(*                                                                         *)
(* Strings the code inspects or builds (nonces, codes, states, the         *)
(* callback URL) are sequences of one-character strings; the fixed pieces  *)
(* of the callback URL are kept as single tokens.                          *)
(***************************************************************************)
EXTENDS Integers, Sequences, FiniteSets, TLC

VARIABLES clock, extBusy, registry, lock, cpc, wpc, port, nonce, expected,
          n, handled, pend, events, last

vars == <<clock, extBusy, registry, lock, cpc, wpc, port, nonce, expected,
          n, handled, pend, events, last>>

----------------------------------------------------------------------------
(* Bounds of the model *)

\* number of start_oauth_server calls (sessions) of one run
NumSessions == 2

\* number of times the system clock advances during one run
MaxTicks == 1

\* loop iterations the workers complete in a run of overlapping sessions
MaxPairAttempts == 2

\* failed accepts in a run of sessions one after the other
MaxRecvErrs == 1

----------------------------------------------------------------------------
(* Program constants *)

OAUTH_PORT_MIN == 17900

OAUTH_PORT_MAX == 17999

\* for _ in 0..10
MaxAttempts == 10

Sessions == 1..NumSessions

Ports == OAUTH_PORT_MIN..OAUTH_PORT_MAX

\* the thread ids a caller may run on
ThreadIds == {1, 2}

----------------------------------------------------------------------------
(* Number formatting *)

DecDigit(d) ==
    CASE d = 0 -> "0" [] d = 1 -> "1" [] d = 2 -> "2" [] d = 3 -> "3"
      [] d = 4 -> "4" [] d = 5 -> "5" [] d = 6 -> "6" [] d = 7 -> "7"
      [] d = 8 -> "8" [] d = 9 -> "9"

HexDigit(d) ==
    CASE d < 10 -> DecDigit(d)
      [] d = 10 -> "a" [] d = 11 -> "b" [] d = 12 -> "c"
      [] d = 13 -> "d" [] d = 14 -> "e" [] d = 15 -> "f"

RECURSIVE Dec(_)
\* format!("{}", v) of an unsigned integer
Dec(v) == IF v < 10 THEN <<DecDigit(v)>>
          ELSE Dec(v \div 10) \o <<DecDigit(v % 10)>>

RECURSIVE Hex(_)
\* format!("{:x}", v) of an unsigned integer
Hex(v) == IF v < 16 THEN <<HexDigit(v)>>
          ELSE Hex(v \div 16) \o <<HexDigit(v % 16)>>

----------------------------------------------------------------------------
(* generate_nonce *)

\* format!("{:?}", std::thread::current().id())
ThreadIdDebug(t) ==
    <<"T", "h", "r", "e", "a", "d", "I", "d", "(">> \o Dec(t) \o <<")">>

\* format!("{:x}{}", timestamp, thread_id.len())
generate_nonce(timestamp, t) ==
    Hex(timestamp) \o Dec(Len(ThreadIdDebug(t)))

----------------------------------------------------------------------------
(* urlencoding::encode of the characters the model posts *)

EncodeChar(c) ==
    CASE c = "&" -> <<"%", "2", "6">>
      [] c = " " -> <<"%", "2", "0">>
      [] c = "=" -> <<"%", "3", "D">>
      [] c = "%" -> <<"%", "2", "5">>
      [] OTHER   -> <<c>>

RECURSIVE urlencode(_)
urlencode(s) == IF s = <<>> THEN <<>>
                ELSE EncodeChar(Head(s)) \o urlencode(Tail(s))

\* format!("http://localhost:{}?code={}&state={}", server_port, ..)
callback_url(p, code, state) ==
    <<"http://localhost:">> \o Dec(p) \o <<"?code=">> \o urlencode(code)
        \o <<"&state=">> \o urlencode(state)

----------------------------------------------------------------------------
(* Responses *)

cors_headers ==
    { <<"Access-Control-Allow-Origin", "*">>,
      <<"Access-Control-Allow-Methods", "POST, OPTIONS">>,
      <<"Access-Control-Allow-Headers", "Content-Type">>,
      <<"Content-Type", "application/json">>,
      <<"Connection", "close">> }

\* Response::empty(204) with Access-Control-Max-Age and the CORS headers
RespOptions ==
    [status |-> 204, body |-> "",
     headers |-> {<<"Access-Control-Max-Age", "86400">>} \cup cors_headers]

\* mutant of RespError: the error responses are sent without the CORS headers
RespErrorBare(status, body) ==
    [status |-> status, body |-> body, headers |-> {}]

\* Response::from_string(body).with_status_code(status) with the CORS headers
RespError(status, body) ==
    [status |-> status, body |-> body, headers |-> cors_headers]

RespReadFailed == RespError(400, "{\"error\":\"Failed to read body\"}")

RespInvalidJson == RespError(400, "{\"error\":\"Invalid JSON\"}")

RespMissing == RespError(400, "{\"error\":\"Missing fields\"}")

RespInvalidNonce == RespError(403, "{\"error\":\"Invalid nonce\"}")

\* Response::from_string keeps the default status 200; body.len() is 16
RespSuccess ==
    [status |-> 200, body |-> "{\"success\":true}",
     headers |-> {<<"Content-Length", "16">>} \cup cors_headers]

\* the worker writes nothing (a method it does not handle, a closed port)
NoResp == [status |-> 0, body |-> "", headers |-> {}]

----------------------------------------------------------------------------
(* Requests *)

Absent == [t |-> "absent", v |-> <<>>]

NotString == [t |-> "number", v |-> <<>>]

Str(x) == [t |-> "str", v |-> x]

\* json.get(k).and_then(|v| v.as_str()) is Some
IsSome(f) == f.t = "str"

PostedCodes == { <<"a", "&">> }

PostedStates == { <<"x", " ">> }

ToUpperChar(c) ==
    CASE c = "a" -> "A" [] c = "b" -> "B" [] c = "c" -> "C"
      [] c = "d" -> "D" [] c = "e" -> "E" [] c = "f" -> "F"
      [] OTHER -> c

ToUpper(s) == [i \in 1..Len(s) |-> ToUpperChar(s[i])]

ClockReadings == 10..(10 + MaxTicks)

IssuableNonces ==
    { generate_nonce(ts, t) : ts \in ClockReadings, t \in ThreadIds }

\* what a client may put in the nonce field: any nonce the server can issue,
\* and the same in upper case
PostedNonces == IssuableNonces \cup { ToUpper(x) : x \in IssuableNonces }

Fields(S) == {Absent, NotString} \cup { Str(x) : x \in S }

NoField == [t |-> "none", v |-> <<>>]

Simple(method, kind) ==
    [method |-> method, kind |-> kind,
     code |-> NoField, nonce |-> NoField, state |-> NoField]

JsonPosts ==
    [method : {"POST"}, kind : {"json"}, code : Fields(PostedCodes),
     nonce : Fields(PostedNonces), state : Fields(PostedStates)]

\* kind: "unreadable" (read_to_string fails), "text" (not JSON), "json"
Requests ==
    { Simple("OPTIONS", "none"), Simple("GET", "none"),
      Simple("POST", "unreadable"), Simple("POST", "text") } \cup JsonPosts

\* the requests of the runs with more than one session: a preflight, and
\* complete posts with each nonce
CoreRequests ==
    { Simple("OPTIONS", "none") } \cup
    [method : {"POST"}, kind : {"json"},
     code : { Str(x) : x \in PostedCodes },
     nonce : { Str(x) : x \in PostedNonces },
     state : { Str(x) : x \in PostedStates }]

NoReq == Simple("NONE", "none")

NoLast == [sess |-> 0, port |-> 0, req |-> NoReq, resp |-> NoResp]

----------------------------------------------------------------------------
(* The nonce map *)

Insert(m, k, v) == [q \in DOMAIN m \cup {k} |-> IF q = k THEN v ELSE m[q]]

\* mutant of Remove: the entry stays
RemoveKeeps(m, k) == m

Remove(m, k) == [q \in DOMAIN m \ {k} |-> m[q]]

----------------------------------------------------------------------------
(* Port allocation *)

LiveWorker == {"recv", "lock", "remove", "emit", "respond", "sleep"}

\* session s owns a bound Server: the caller before the spawn, the worker after
Holding(s) ==
    \/ cpc[s] \in {"gen", "lock", "insert", "spawn"}
    \/ wpc[s] \in LiveWorker

\* Server::http(format!("127.0.0.1:{}", p)) is Ok
BindOk(p) ==
    /\ p \notin extBusy
    /\ \A s \in Sessions : ~(Holding(s) /\ port[s] = p)

RECURSIVE ScanKeepingLast(_, _)
ScanKeepingLast(p, found) ==
    IF p > OAUTH_PORT_MAX THEN found
    ELSE ScanKeepingLast(p + 1, IF BindOk(p) THEN p ELSE found)

\* mutant of ScanFrom: the loop has no break and keeps the last port that binds
ScanNoBreak(p) == ScanKeepingLast(p, 0)

RECURSIVE ScanFrom(_)
\* for p in OAUTH_PORT_MIN..=OAUTH_PORT_MAX: the first port that binds, 0 if none
ScanFrom(p) == IF p > OAUTH_PORT_MAX THEN 0
               ELSE IF BindOk(p) THEN p
               ELSE ScanFrom(p + 1)

----------------------------------------------------------------------------
(* Initial state *)

\* ports some other process holds, or where the bind is refused
ExtChoices == { {}, {OAUTH_PORT_MIN}, Ports \ {OAUTH_PORT_MIN}, Ports }

Init ==
    /\ clock = 10
    /\ extBusy \in ExtChoices
    /\ registry = <<>>
    /\ lock = 0
    /\ cpc = [s \in Sessions |-> "idle"]
    /\ wpc = [s \in Sessions |-> "none"]
    /\ port = [s \in Sessions |-> 0]
    /\ nonce = [s \in Sessions |-> <<>>]
    /\ expected = [s \in Sessions |-> <<>>]
    /\ n = [s \in Sessions |-> 0]
    /\ handled = [s \in Sessions |-> 0]
    /\ pend = [s \in Sessions |-> NoReq]
    /\ events = <<>>
    /\ last = NoLast

----------------------------------------------------------------------------
(* start_oauth_server: the caller *)

\* mutant of Scan: when no port binds the call falls back on the first port
\* of the range instead of returning the error
ScanFallsBack(s) ==
    /\ cpc[s] = "idle"
    /\ \A u \in Sessions : u < s => cpc[u] # "idle"
    /\ LET p == ScanFrom(OAUTH_PORT_MIN) IN
         port' = [port EXCEPT ![s] = IF p = 0 THEN OAUTH_PORT_MIN ELSE p]
    /\ cpc' = [cpc EXCEPT ![s] = "gen"]
    /\ UNCHANGED <<clock, extBusy, registry, lock, wpc, nonce, expected,
                   n, handled, pend, events, last>>

\* the caller of session s runs the port scan; calls are numbered in the
\* order in which they scan
Scan(s) ==
    /\ cpc[s] = "idle"
    /\ \A u \in Sessions : u < s => cpc[u] # "idle"
    /\ LET p == ScanFrom(OAUTH_PORT_MIN) IN
         /\ port' = [port EXCEPT ![s] = p]
         /\ cpc' = [cpc EXCEPT ![s] = IF p = 0 THEN "failed" ELSE "gen"]
    /\ UNCHANGED <<clock, extBusy, registry, lock, wpc, nonce, expected,
                   n, handled, pend, events, last>>

\* let nonce = generate_nonce();
Generate(s) ==
    /\ cpc[s] = "gen"
    /\ \E t \in ThreadIds :
         nonce' = [nonce EXCEPT ![s] = generate_nonce(clock, t)]
    /\ cpc' = [cpc EXCEPT ![s] = "lock"]
    /\ UNCHANGED <<clock, extBusy, registry, lock, wpc, port, expected,
                   n, handled, pend, events, last>>

\* active_nonces().lock().unwrap()
LockForInsert(s) ==
    /\ cpc[s] = "lock"
    /\ lock = 0
    /\ lock' = s
    /\ cpc' = [cpc EXCEPT ![s] = "insert"]
    /\ UNCHANGED <<clock, extBusy, registry, wpc, port, nonce, expected,
                   n, handled, pend, events, last>>

\* nonces.insert(port, nonce.clone()); the guard is dropped
InsertNonce(s) ==
    /\ cpc[s] = "insert"
    /\ registry' = Insert(registry, port[s], nonce[s])
    /\ lock' = 0
    /\ cpc' = [cpc EXCEPT ![s] = "spawn"]
    /\ UNCHANGED <<clock, extBusy, wpc, port, nonce, expected,
                   n, handled, pend, events, last>>

\* mutant of Spawn: the worker is given a nonce generated anew instead of a
\* clone of the registered one
SpawnRegenerates(s) ==
    /\ cpc[s] = "spawn"
    /\ \E t \in ThreadIds :
         expected' = [expected EXCEPT ![s] = generate_nonce(clock, t)]
    /\ wpc' = [wpc EXCEPT ![s] = "recv"]
    /\ cpc' = [cpc EXCEPT ![s] = "return"]
    /\ UNCHANGED <<clock, extBusy, registry, lock, port, nonce,
                   n, handled, pend, events, last>>

\* thread::spawn(move || ..) with expected_nonce = nonce.clone()
Spawn(s) ==
    /\ cpc[s] = "spawn"
    /\ expected' = [expected EXCEPT ![s] = nonce[s]]
    /\ wpc' = [wpc EXCEPT ![s] = "recv"]
    /\ cpc' = [cpc EXCEPT ![s] = "return"]
    /\ UNCHANGED <<clock, extBusy, registry, lock, port, nonce,
                   n, handled, pend, events, last>>

\* Ok((port, nonce))
Return(s) ==
    /\ cpc[s] = "return"
    /\ cpc' = [cpc EXCEPT ![s] = "returned"]
    /\ UNCHANGED <<clock, extBusy, registry, lock, wpc, port, nonce, expected,
                   n, handled, pend, events, last>>

----------------------------------------------------------------------------
(* start_oauth_server: the worker thread *)

\* mutant of NonceEq: the comparison ignores case
NonceEqIgnoreCase(a, b) == ToUpper(a) = ToUpper(b)

\* nonce == expected_nonce
NonceEq(a, b) == a = b

\* mutant of IsMatch: the guard compares the state field with the expected
\* nonce
IsMatchOnState(r, exp) ==
    /\ r.method = "POST"
    /\ r.kind = "json"
    /\ IsSome(r.code) /\ IsSome(r.nonce) /\ IsSome(r.state)
    /\ r.state.v = exp

\* the arm (Some(code), Some(nonce), Some(state)) if nonce == expected_nonce
IsMatch(r, exp) ==
    /\ r.method = "POST"
    /\ r.kind = "json"
    /\ IsSome(r.code) /\ IsSome(r.nonce) /\ IsSome(r.state)
    /\ NonceEq(r.nonce.v, exp)

\* mutant of Reply: the nonce is judged before the other fields are looked at
ReplyNonceFirst(r, exp) ==
    IF r.method = "OPTIONS" THEN RespOptions
    ELSE IF r.method = "POST" THEN
        IF r.kind = "unreadable" THEN RespReadFailed
        ELSE IF r.kind = "text" THEN RespInvalidJson
        ELSE IF IsSome(r.nonce) THEN RespInvalidNonce
        ELSE RespMissing
    ELSE NoResp

\* what the worker answers to a request that does not take the success arm
Reply(r, exp) ==
    IF r.method = "OPTIONS" THEN RespOptions
    ELSE IF r.method = "POST" THEN
        IF r.kind = "unreadable" THEN RespReadFailed
        ELSE IF r.kind = "text" THEN RespInvalidJson
        ELSE IF IsSome(r.code) /\ IsSome(r.nonce) /\ IsSome(r.state)
             THEN RespInvalidNonce
        ELSE RespMissing
    ELSE NoResp

\* mutant of NextIteration: the loop runs over 0..=10
NextIterationInclusive(s) ==
    /\ n' = [n EXCEPT ![s] = n[s] + 1]
    /\ wpc' = [wpc EXCEPT ![s] =
                 IF n[s] + 1 = MaxAttempts + 1 THEN "done" ELSE "recv"]

\* the end of one iteration of for _ in 0..10
NextIteration(s) ==
    /\ n' = [n EXCEPT ![s] = n[s] + 1]
    /\ wpc' = [wpc EXCEPT ![s] =
                 IF n[s] + 1 = MaxAttempts THEN "done" ELSE "recv"]

\* server.recv() is Err: continue
RecvErr(s) ==
    /\ wpc[s] = "recv"
    /\ NextIteration(s)
    /\ UNCHANGED <<clock, extBusy, registry, lock, cpc, port, nonce, expected,
                   handled, pend, events, last>>

\* mutant of Handle: a preflight is answered without using up an iteration
HandleOptionsFree(s, r) ==
    /\ wpc[s] = "recv"
    /\ handled' = [handled EXCEPT ![s] = handled[s] + 1]
    /\ IF IsMatch(r, expected[s])
       THEN /\ pend' = [pend EXCEPT ![s] = r]
            /\ wpc' = [wpc EXCEPT ![s] = "lock"]
            /\ UNCHANGED <<n, last>>
       ELSE /\ last' = [sess |-> s, port |-> port[s], req |-> r,
                        resp |-> Reply(r, expected[s])]
            /\ IF r.method = "OPTIONS"
               THEN UNCHANGED <<n, wpc>>
               ELSE NextIteration(s)
            /\ UNCHANGED pend
    /\ UNCHANGED <<clock, extBusy, registry, lock, cpc, port, nonce, expected,
                   events>>

\* mutant of Handle: a request of a method the worker does not handle is
\* skipped without using up an iteration
HandleOtherFree(s, r) ==
    /\ wpc[s] = "recv"
    /\ handled' = [handled EXCEPT ![s] = handled[s] + 1]
    /\ IF IsMatch(r, expected[s])
       THEN /\ pend' = [pend EXCEPT ![s] = r]
            /\ wpc' = [wpc EXCEPT ![s] = "lock"]
            /\ UNCHANGED <<n, last>>
       ELSE /\ last' = [sess |-> s, port |-> port[s], req |-> r,
                        resp |-> Reply(r, expected[s])]
            /\ IF r.method \notin {"OPTIONS", "POST"}
               THEN UNCHANGED <<n, wpc>>
               ELSE NextIteration(s)
            /\ UNCHANGED pend
    /\ UNCHANGED <<clock, extBusy, registry, lock, cpc, port, nonce, expected,
                   events>>

\* mutant of Handle: a nonce mismatch ends the worker
HandleLockout(s, r) ==
    /\ wpc[s] = "recv"
    /\ handled' = [handled EXCEPT ![s] = handled[s] + 1]
    /\ IF IsMatch(r, expected[s])
       THEN /\ pend' = [pend EXCEPT ![s] = r]
            /\ wpc' = [wpc EXCEPT ![s] = "lock"]
            /\ UNCHANGED <<n, last>>
       ELSE /\ last' = [sess |-> s, port |-> port[s], req |-> r,
                        resp |-> Reply(r, expected[s])]
            /\ IF Reply(r, expected[s]) = RespInvalidNonce
               THEN /\ n' = [n EXCEPT ![s] = n[s] + 1]
                    /\ wpc' = [wpc EXCEPT ![s] = "done"]
               ELSE NextIteration(s)
            /\ UNCHANGED pend
    /\ UNCHANGED <<clock, extBusy, registry, lock, cpc, port, nonce, expected,
                   events>>

\* server.recv() is Ok(r), up to the response or up to taking the success arm
Handle(s, r) ==
    /\ wpc[s] = "recv"
    /\ handled' = [handled EXCEPT ![s] = handled[s] + 1]
    /\ IF IsMatch(r, expected[s])
       THEN /\ pend' = [pend EXCEPT ![s] = r]
            /\ wpc' = [wpc EXCEPT ![s] = "lock"]
            /\ UNCHANGED <<n, last>>
       ELSE /\ last' = [sess |-> s, port |-> port[s], req |-> r,
                        resp |-> Reply(r, expected[s])]
            /\ NextIteration(s)
            /\ UNCHANGED pend
    /\ UNCHANGED <<clock, extBusy, registry, lock, cpc, port, nonce, expected,
                   events>>

\* active_nonces().lock().unwrap()
LockForRemove(s) ==
    /\ wpc[s] = "lock"
    /\ lock = 0
    /\ lock' = s
    /\ wpc' = [wpc EXCEPT ![s] = "remove"]
    /\ UNCHANGED <<clock, extBusy, registry, cpc, port, nonce, expected,
                   n, handled, pend, events, last>>

\* mutant of RemoveNonce: the guard is not dropped after the removal
RemoveNonceKeepsLock(s) ==
    /\ wpc[s] = "remove"
    /\ registry' = Remove(registry, port[s])
    /\ wpc' = [wpc EXCEPT ![s] = "emit"]
    /\ UNCHANGED <<clock, extBusy, lock, cpc, port, nonce, expected,
                   n, handled, pend, events, last>>

\* mutant of RemoveNonce: the whole map is cleared instead of the one entry
RemoveNonceClears(s) ==
    /\ wpc[s] = "remove"
    /\ registry' = <<>>
    /\ lock' = 0
    /\ wpc' = [wpc EXCEPT ![s] = "emit"]
    /\ UNCHANGED <<clock, extBusy, cpc, port, nonce, expected,
                   n, handled, pend, events, last>>

\* nonces.remove(&server_port); the guard is dropped
RemoveNonce(s) ==
    /\ wpc[s] = "remove"
    /\ registry' = Remove(registry, port[s])
    /\ lock' = 0
    /\ wpc' = [wpc EXCEPT ![s] = "emit"]
    /\ UNCHANGED <<clock, extBusy, cpc, port, nonce, expected,
                   n, handled, pend, events, last>>

\* mutant of Emit: after the event the worker goes straight to the delay; the
\* 200 is never written
EmitThenSleep(s) ==
    /\ wpc[s] = "emit"
    /\ events' = Append(events,
                   [sess |-> s, name |-> "oauth-callback",
                    payload |-> callback_url(port[s], pend[s].code.v,
                                             pend[s].state.v)])
    /\ wpc' = [wpc EXCEPT ![s] = "sleep"]
    /\ UNCHANGED <<clock, extBusy, registry, lock, cpc, port, nonce, expected,
                   n, handled, pend, last>>

\* app_handle.emit("oauth-callback", callback_url)
Emit(s) ==
    /\ wpc[s] = "emit"
    /\ events' = Append(events,
                   [sess |-> s, name |-> "oauth-callback",
                    payload |-> callback_url(port[s], pend[s].code.v,
                                             pend[s].state.v)])
    /\ wpc' = [wpc EXCEPT ![s] = "respond"]
    /\ UNCHANGED <<clock, extBusy, registry, lock, cpc, port, nonce, expected,
                   n, handled, pend, last>>

\* request.respond(response) with {"success":true}
Respond(s) ==
    /\ wpc[s] = "respond"
    /\ last' = [sess |-> s, port |-> port[s], req |-> pend[s],
                resp |-> RespSuccess]
    /\ wpc' = [wpc EXCEPT ![s] = "sleep"]
    /\ UNCHANGED <<clock, extBusy, registry, lock, cpc, port, nonce, expected,
                   n, handled, pend, events>>

\* mutant of Break: the worker never leaves the delay
BreakNever(s) ==
    /\ wpc[s] = "sleep"
    /\ UNCHANGED vars

\* mutant of Break: the loop goes on after the success arm
BreakContinues(s) ==
    /\ wpc[s] = "sleep"
    /\ pend' = [pend EXCEPT ![s] = NoReq]
    /\ NextIteration(s)
    /\ UNCHANGED <<clock, extBusy, registry, lock, cpc, port, nonce, expected,
                   handled, events, last>>

\* thread::sleep(500 ms); break; the closure ends and the Server is dropped,
\* and with the loop its request and its counters are gone
Break(s) ==
    /\ wpc[s] = "sleep"
    /\ wpc' = [wpc EXCEPT ![s] = "done"]
    /\ pend' = [pend EXCEPT ![s] = NoReq]
    /\ n' = [n EXCEPT ![s] = 0]
    /\ handled' = [handled EXCEPT ![s] = 0]
    /\ UNCHANGED <<clock, extBusy, registry, lock, cpc, port, nonce, expected,
                   events, last>>

----------------------------------------------------------------------------
(* The environment *)

\* SystemTime::now() advances; only the calls that have yet to read the clock
\* can tell
Tick(S) ==
    /\ clock < 10 + MaxTicks
    /\ \E s \in S : cpc[s] \in {"idle", "gen"}
    /\ clock' = clock + 1
    /\ UNCHANGED <<extBusy, registry, lock, cpc, wpc, port, nonce, expected,
                   n, handled, pend, events, last>>

\* a request sent to the port of a session whose worker has stopped receiving
\* (it took the success arm, or its thread has ended), while no later session
\* listens there: no worker of this program receives it
Unanswered(s, r) ==
    /\ wpc[s] \in {"lock", "remove", "emit", "respond", "sleep", "done"}
    /\ \A u \in Sessions : ~(port[u] = port[s] /\ wpc[u] = "recv")
    /\ last' = [sess |-> 0, port |-> port[s], req |-> r, resp |-> NoResp]
    /\ UNCHANGED <<clock, extBusy, registry, lock, cpc, wpc, port, nonce,
                   expected, n, handled, pend, events>>

----------------------------------------------------------------------------
(* Specifications *)

CallerStep(s) ==
    \/ Scan(s)
    \/ Generate(s)
    \/ LockForInsert(s)
    \/ InsertNonce(s)
    \/ Spawn(s)
    \/ Return(s)

SuccessStep(s) ==
    \/ LockForRemove(s)
    \/ RemoveNonce(s)
    \/ Emit(s)
    \/ Respond(s)
    \/ Break(s)

\* One session, every request.
Next ==
    \/ CallerStep(1)
    \/ RecvErr(1)
    \/ \E r \in Requests : Handle(1, r)
    \/ SuccessStep(1)
    \/ \E r \in CoreRequests : Unanswered(1, r)
    \/ Tick({1})

Spec == Init /\ [][Next]_vars

\* session u is over: its call has returned and its worker thread has ended
Over(u) == cpc[u] \in {"returned", "failed"} /\ wpc[u] \in {"none", "done"}

\* a call made once the sessions before it are over
SeqCall(s) ==
    /\ \A u \in Sessions : u < s => Over(u)
    /\ CallerStep(s)

RECURSIVE RecvErrsUpTo(_)
\* the iterations the workers of sessions 1..k spent on failed accepts
RecvErrsUpTo(k) ==
    IF k = 0 THEN 0 ELSE (n[k] - handled[k]) + RecvErrsUpTo(k - 1)

\* a failed accept, at most MaxRecvErrs of them among the workers
SeqRecvErr(s) ==
    /\ RecvErrsUpTo(NumSessions) < MaxRecvErrs
    /\ RecvErr(s)

\* a POST with the nonce of session s, sent to its port once its worker has
\* stopped receiving
SeqUnanswered(s) ==
    \E r \in CoreRequests :
      /\ r.method = "POST" /\ r.nonce = Str(nonce[s])
      /\ Unanswered(s, r)

\* Sessions one after the other.
NextSeq ==
    \/ \E s \in Sessions : SeqCall(s)
    \/ \E s \in Sessions : SeqRecvErr(s)
    \/ \E s \in Sessions, r \in CoreRequests : Handle(s, r)
    \/ \E s \in Sessions : SuccessStep(s)
    \/ \E s \in Sessions : SeqUnanswered(s)
    \/ Tick(Sessions)

SpecSeq == Init /\ [][NextSeq]_vars

\* the two sessions of the runs with overlapping sessions
Pair == {1, 2}

\* the loop iterations the workers of the pair have completed
PairAttempts == n[1] + n[2]

PairRecvErr(s) ==
    /\ PairAttempts < MaxPairAttempts
    /\ RecvErr(s)

PairHandle(s, r) ==
    /\ IsMatch(r, expected[s]) \/ PairAttempts < MaxPairAttempts
    /\ Handle(s, r)

\* Two overlapping sessions: calls and workers interleave freely, while the
\* workers complete at most MaxPairAttempts iterations between them.
NextPair ==
    \/ \E s \in Pair : CallerStep(s)
    \/ \E s \in Pair : PairRecvErr(s)
    \/ \E s \in Pair, r \in CoreRequests : PairHandle(s, r)
    \/ \E s \in Pair : SuccessStep(s)
    \/ Tick(Pair)

SpecPair == Init /\ [][NextPair]_vars

\* an inbound request reaches the worker of session s
Arrival(s) == \E r \in CoreRequests : Handle(s, r)

\* One session whose requests keep arriving.
NextLive ==
    \/ CallerStep(1)
    \/ RecvErr(1)
    \/ Arrival(1)
    \/ SuccessStep(1)
    \/ Tick({1})

\* the worker's thread is scheduled, and a receiving worker is eventually
\* sent a request
SpecLive ==
    /\ Init /\ [][NextLive]_vars
    /\ WF_vars(SuccessStep(1))
    /\ WF_vars(Arrival(1))

----------------------------------------------------------------------------
(* Vocabulary of the properties *)

\* a POST whose JSON body has code, nonce and state, all strings
CompletePost(r) ==
    /\ r.method = "POST" /\ r.kind = "json"
    /\ r.code.t = "str" /\ r.nonce.t = "str" /\ r.state.t = "str"

\* the positions of the events session s has emitted
EventsOf(s) == { i \in 1..Len(events) : events[i].sess = s }

\* the step writes a response of session s to a request (or drops one)
Answers(s) == last' # last /\ last'.sess = s

\* session s answered the request of the last exchange
Answered(s) == last.sess = s

----------------------------------------------------------------------------
(* C1 *)

\* The callback URL for code "a&" and state "x " on port 17900, written out.
UrlOn17900 ==
    << "http://localhost:", "1", "7", "9", "0", "0", "?code=", "a", "%", "2",
       "6", "&state=", "x", "%", "2", "0" >>

\* C1: a complete POST whose nonce equals the session's nonce, received by a
\* listening worker, is never answered with anything but the 200
\* {"success":true}; it takes the success arm, on which the worker emits
\* exactly one oauth-callback event whose payload is
\* http://localhost:{port}?code={code}&state={state} with the session's port
\* and the URL-encoded code and state, and then writes the 200.
C1_InvPart ==
    \A s \in Sessions :
      /\ (Answered(s) /\ CompletePost(last.req) /\ last.req.nonce.v = nonce[s])
            => /\ last.resp.status = 200
               /\ last.resp.body = "{\"success\":true}"
      /\ wpc[s] \in {"lock", "remove", "emit"}
            => /\ CompletePost(pend[s]) /\ pend[s].nonce.v = nonce[s]
               /\ EventsOf(s) = {}
      /\ wpc[s] \in {"respond", "sleep"}
            => \E i \in 1..Len(events) :
                 /\ EventsOf(s) = {i}
                 /\ events[i].name = "oauth-callback"
                 /\ events[i].payload =
                      <<"http://localhost:">> \o Dec(port[s]) \o <<"?code=">>
                        \o urlencode(pend[s].code.v) \o <<"&state=">>
                        \o urlencode(pend[s].state.v)
                 /\ port[s] = 17900 => events[i].payload = UrlOn17900

C1_StepPart ==
    \A s \in Sessions :
      /\ (wpc[s] = "recv" /\ pend'[s] # pend[s])
            => /\ CompletePost(pend'[s]) /\ pend'[s].nonce.v = nonce[s]
               /\ wpc'[s] = "lock"
      /\ (wpc[s] = "respond" /\ wpc'[s] # "respond")
            => /\ last' = [sess |-> s, port |-> port[s], req |-> pend[s],
                           resp |-> RespSuccess]
               /\ events' = events

C1_CorrectPostSucceeds == []C1_InvPart /\ [][C1_StepPart]_vars

\* a correct POST has been answered 200 after earlier failed attempts
C1_Witness ==
    /\ wpc[1] = "sleep" /\ n[1] > 0
    /\ last.sess = 1 /\ last.resp = RespSuccess
    /\ Len(events) = 1

----------------------------------------------------------------------------
(* C2 *)

\* session s has taken the success arm for some POST
Validated(s) == pend[s] # NoReq \/ EventsOf(s) # {}

\* C2 as stated: a second POST carrying the session's nonce, sent to the
\* session's port after the session has succeeded, is answered 403.
C2_SecondPostGets403 ==
    [][ \A s \in Sessions :
          ( /\ wpc[s] = "done" /\ EventsOf(s) # {}
            /\ last' # last
            /\ last'.sess # s
            /\ last'.port = port[s]
            /\ CompletePost(last'.req)
            /\ last'.req.nonce.v = nonce[s] )
          => last'.resp.status = 403 ]_vars

C2_InvPart ==
    \A s \in Sessions : Cardinality(EventsOf(s)) <= 1

C2_StepPart ==
    \A s \in Sessions :
      Validated(s) =>
        /\ pend'[s] # pend[s] => pend'[s] = NoReq
        /\ Answers(s) => /\ wpc[s] = "respond" /\ wpc'[s] = "sleep"
                         /\ last'.resp = RespSuccess
        /\ wpc'[s] \notin {"recv", "respond"} \/ wpc'[s] = wpc[s]
             \/ (wpc[s] = "emit" /\ wpc'[s] = "respond")

\* C2 (amended): a session emits at most one oauth-callback event; once it
\* has validated a POST its worker takes no further request: it writes the
\* one 200 and ends, so a later POST with the same nonce gets no answer from
\* that session, neither a 403 nor a second 200, and no second event.
C2_AtMostOnce == []C2_InvPart /\ [][C2_StepPart]_vars

\* after session 1 succeeded, a POST with its nonce went unanswered
C2_Witness ==
    /\ wpc[1] = "done" /\ EventsOf(1) # {}
    /\ last.sess = 0 /\ last.port = port[1]
    /\ CompletePost(last.req) /\ last.req.nonce.v = nonce[1]

----------------------------------------------------------------------------
(* C3 *)

\* a complete POST whose nonce differs from x
WrongNoncePost(r, x) == CompletePost(r) /\ r.nonce.v # x

C3_InvPart ==
    \A s \in Sessions :
      /\ pend[s] # NoReq => ~WrongNoncePost(pend[s], nonce[s])
      /\ (Answered(s) /\ WrongNoncePost(last.req, nonce[s]))
            => last.resp.status = 403

C3_StepPart ==
    \A s \in Sessions :
      (Answers(s) /\ WrongNoncePost(last'.req, nonce[s]))
        => /\ last'.resp.status = 403
           /\ last'.resp.body = "{\"error\":\"Invalid nonce\"}"
           /\ events' = events
           /\ port[s] \in DOMAIN registry
           /\ registry[port[s]] = nonce[s]
           /\ registry' = registry

\* C3: a complete POST whose nonce differs from the session's nonce is
\* answered 403 {"error":"Invalid nonce"}, never takes the success arm, emits
\* no event, and leaves the registry as it was, the entry of the session's
\* port present with the session's nonce.
C3_WrongNonceRejected == []C3_InvPart /\ [][C3_StepPart]_vars

\* the session's nonce in upper case has been answered 403
C3_Witness ==
    /\ last.sess = 1 /\ last.resp = RespInvalidNonce
    /\ last.req.nonce.v # nonce[1]
    /\ last.req.nonce.v = ToUpper(nonce[1])
    /\ registry[port[1]] = nonce[1]

----------------------------------------------------------------------------
(* C4 *)

\* the registry holds the entry port[s] -> nonce[s]
HasOwnEntry(s) == port[s] \in DOMAIN registry /\ registry[port[s]] = nonce[s]

\* C4 as stated: when start_oauth_server returns, the registry holds the
\* entry of the session's port with the returned nonce, whatever the worker
\* and the other sessions did meanwhile.
C4_EntryAtReturn ==
    [][ \A s \in Sessions :
          (cpc[s] = "return" /\ cpc'[s] = "returned") => HasOwnEntry(s)' ]_vars

\* C4 (amended): the registry holds the entry of the session's port, equal to
\* the returned nonce, from the insert until the session's own worker removes
\* it on a successful validation - so at the return of start_oauth_server
\* unless the worker has by then validated a POST - and it holds no entry
\* for that port from the removal until the worker ends; this under any
\* interleaving of the caller, the worker and the other sessions.
C4_EntryFromInsertToRemoval ==
    \A s \in Sessions :
      /\ ( /\ cpc[s] \in {"spawn", "return", "returned"}
           /\ wpc[s] \in {"none", "recv", "lock", "remove"} )
            => HasOwnEntry(s)
      /\ wpc[s] \in {"emit", "respond", "sleep"}
            => port[s] \notin DOMAIN registry

\* the call returns after its worker has already consumed the entry, while
\* the other session is under way
C4_Witness ==
    /\ cpc[1] = "returned" /\ wpc[1] = "emit"
    /\ port[1] \notin DOMAIN registry
    /\ cpc[2] = "returned" /\ wpc[2] = "recv" /\ HasOwnEntry(2)

----------------------------------------------------------------------------
(* C5 *)

\* C5: a worker whose loop has completed 10 iterations (so one that has
\* processed 10 requests) without a successful validation has ended and no
\* longer holds its port: unless another process took it, the port binds
\* again, or a later session has already bound it; and a worker never
\* receives in an 11th iteration.
C5_TenAttemptsThenReleased ==
    \A s \in Sessions :
      /\ n[s] <= 10
      /\ wpc[s] = "recv" => n[s] < 10
      /\ n[s] = 10 =>
           /\ wpc[s] = "done"
           /\ EventsOf(s) = {}
           /\ ~Holding(s)
           /\ \/ port[s] \in extBusy
              \/ BindOk(port[s])
              \/ \E u \in Sessions \ {s} : Holding(u) /\ port[u] = port[s]

\* session 1 used up its 10 attempts and session 2 has bound the same port
C5_Witness ==
    /\ wpc[1] = "done" /\ n[1] = 10 /\ EventsOf(1) = {}
    /\ wpc[2] = "recv" /\ port[2] = port[1]

----------------------------------------------------------------------------
(* C6 *)

\* the ports of the range that are free: not in use or refused outside the
\* program, and not held by a listener of the program
FreePorts ==
    { p \in 17900..17999 :
        /\ p \notin extBusy
        /\ \A u \in Sessions :
             \/ port[u] # p
             \/ /\ cpc[u] \notin {"gen", "lock", "insert", "spawn"}
                /\ wpc[u] \in {"none", "done"} }

\* C6: the scan of start_oauth_server ends with the lowest port of
\* 17900..17999 that was free when the call scanned, and it ends with the
\* no-available-port error exactly when no port of the range was free.
C6_LowestFreePort ==
    [][ \A s \in Sessions :
          (cpc[s] = "idle" /\ cpc'[s] # "idle") =>
            IF FreePorts = {}
            THEN cpc'[s] = "failed" /\ port'[s] = 0
            ELSE /\ cpc'[s] = "gen"
                 /\ port'[s] \in FreePorts
                 /\ \A p \in FreePorts : port'[s] <= p ]_vars

\* session 2 got 17902 because 17900 is in use elsewhere and session 1
\* listens on 17901
C6_Witness ==
    /\ extBusy = {17900}
    /\ port[1] = 17901 /\ wpc[1] = "recv"
    /\ port[2] = 17902 /\ cpc[2] = "gen"

----------------------------------------------------------------------------
(* C7 *)

\* the answer the documented order of the checks gives a POST that does not
\* reach the nonce check, <<>> for a POST that reaches it
ExpectedError(r) ==
    IF r.kind = "unreadable" THEN <<400, "{\"error\":\"Failed to read body\"}">>
    ELSE IF r.kind = "text" THEN <<400, "{\"error\":\"Invalid JSON\"}">>
    ELSE IF r.code.t # "str" \/ r.nonce.t # "str" \/ r.state.t # "str"
         THEN <<400, "{\"error\":\"Missing fields\"}">>
    ELSE <<>>

C7_InvPart ==
    \A s \in Sessions :
      /\ (Answered(s) /\ last.req.method = "POST")
           => IF ExpectedError(last.req) # <<>>
              THEN <<last.resp.status, last.resp.body>> = ExpectedError(last.req)
              ELSE last.resp.status \in {200, 403}
      /\ pend[s] # NoReq => ExpectedError(pend[s]) = <<>>

C7_StepPart ==
    \A s \in Sessions :
      (Answers(s) /\ last'.resp.status = 400)
        => /\ events' = events
           /\ registry' = registry
           /\ expected' = expected
           /\ n'[s] = n[s] + 1
           /\ wpc'[s] = IF n'[s] < 10 THEN "recv" ELSE "done"

\* C7 as stated: each of the three 400 answers leaves the session open for
\* further attempts.
C7_StaysOpenAfter400 ==
    [][ \A s \in Sessions :
          (Answers(s) /\ last'.resp.status = 400) => wpc'[s] = "recv" ]_vars

\* C7 (amended): a POST is classified in the order unreadable body (400
\* Failed to read body), body not JSON (400 Invalid JSON), code, nonce or
\* state absent or not a string (400 Missing fields, whatever the nonce), and
\* only then the nonce check (403 or 200); each 400 emits no event, leaves
\* the registry unchanged, and leaves the worker receiving unless the request
\* was the 10th of the session, which ends the worker like any 10th request.
C7_ClassificationOrder == []C7_InvPart /\ [][C7_StepPart]_vars

\* a POST with the right nonce but no state has been answered Missing fields
C7_Witness ==
    /\ last.sess = 1 /\ last.resp = RespMissing
    /\ last.req.nonce.t = "str" /\ last.req.nonce.v = nonce[1]
    /\ last.req.state.t = "absent"
    /\ wpc[1] = "recv" /\ n[1] = 3

----------------------------------------------------------------------------
(* C8 *)

C8_StepPart ==
    \A s \in Sessions :
      (Answers(s) /\ last'.req.method = "OPTIONS")
        => /\ last'.resp.status = 204
           /\ events' = events
           /\ registry' = registry
           /\ pend' = pend
           /\ wpc'[s] \in {"recv", "done"}
           /\ n'[s] = n[s] + 1

\* C8: an OPTIONS request is answered 204, emits no event, leaves the
\* registry unchanged, never takes the success arm, and uses up one of the
\* worker's iterations.
C8_OptionsNeutralButCounted ==
    [](\A s \in Sessions :
         (Answered(s) /\ last.req.method = "OPTIONS") => last.resp.status = 204)
    /\ [][C8_StepPart]_vars

\* ten preflights have used up the session without any event
C8_Witness ==
    /\ last.sess = 1 /\ last.req.method = "OPTIONS" /\ last.resp = RespOptions
    /\ n[1] = 10 /\ wpc[1] = "done" /\ events = <<>>

----------------------------------------------------------------------------
(* C9 *)

\* the complete POST with code "a&", state "x " and nonce x
PostWith(x) ==
    [method |-> "POST", kind |-> "json", code |-> Str(<<"a", "&">>),
     nonce |-> Str(x), state |-> Str(<<"x", " ">>)]

C9_InvPart ==
    \A s \in Sessions :
      wpc[s] = "recv" =>
        /\ n[s] < 10
        /\ ENABLED (Handle(s, PostWith(nonce[s])) /\ wpc'[s] = "lock")

C9_StepPart ==
    \A s \in Sessions :
      (Answers(s) /\ last'.resp.status = 403 /\ n[s] < 9)
        => /\ wpc'[s] = "recv"
           /\ expected' = expected
           /\ nonce' = nonce

\* C9: while a worker is receiving - after any number of nonce mismatches
\* short of the 10 attempts - a POST with the session's nonce takes the
\* success arm; a mismatch that is not the 10th request leaves the worker
\* receiving and leaves the expected nonce as it was.
C9_MismatchesDoNotLockOut == []C9_InvPart /\ [][C9_StepPart]_vars

\* the correct POST succeeded as the 10th request, after 9 mismatches
C9_Witness ==
    /\ n[1] = 9 /\ wpc[1] = "sleep"
    /\ last.sess = 1 /\ last.resp = RespSuccess
    /\ Len(events) = 1

----------------------------------------------------------------------------
(* C10 *)

\* the call of session s has generated its nonce
Issued(s) == cpc[s] \in {"lock", "insert", "spawn", "return", "returned"}

\* C10 as stated: any two sessions started in the same process receive
\* different nonces.
C10_NoncesUnique ==
    \A s, u \in Sessions :
      (s # u /\ Issued(s) /\ Issued(u)) => nonce[s] # nonce[u]

----------------------------------------------------------------------------
(* C11 *)

\* the names of the headers of a response
HeaderNames(resp) == { h[1] : h \in resp.headers }

\* the CORS header set
CorsNames ==
    { "Access-Control-Allow-Origin", "Access-Control-Allow-Methods",
      "Access-Control-Allow-Headers" }

C11_Carried(req, resp) ==
    /\ resp.status \in {204, 200, 400, 403}
    /\ CorsNames \subseteq HeaderNames(resp)
    /\ <<"Access-Control-Allow-Origin", "*">> \in resp.headers
    /\ <<"Access-Control-Allow-Methods", "POST, OPTIONS">> \in resp.headers
    /\ <<"Access-Control-Allow-Headers", "Content-Type">> \in resp.headers
    /\ "Access-Control-Max-Age" \in HeaderNames(resp) <=> req.method = "OPTIONS"
    /\ req.method = "OPTIONS" <=> resp.status = 204

\* C11: every response a worker writes - the 204, the 200, the 400s and the
\* 403 - carries Access-Control-Allow-Origin, Access-Control-Allow-Methods
\* and Access-Control-Allow-Headers; the response to OPTIONS, and no other,
\* also carries Access-Control-Max-Age; a worker writes a response to every
\* OPTIONS and POST it receives, and never one without these headers.
C11_CorsOnEveryResponse ==
    [](\A s \in Sessions :
         Answered(s) =>
           IF last.req.method \in {"OPTIONS", "POST"}
           THEN C11_Carried(last.req, last.resp)
           ELSE last.resp = NoResp)
    /\ [][ \A s \in Sessions :
             Answers(s) =>
               \/ C11_Carried(last'.req, last'.resp)
               \/ last'.req.method \notin {"OPTIONS", "POST"}
                    /\ last'.resp = NoResp ]_vars

\* a 403 with the CORS headers and without Access-Control-Max-Age, written
\* after a preflight, a 400 and other requests
C11_Witness ==
    /\ last.sess = 1 /\ last.resp.status = 403
    /\ CorsNames \subseteq HeaderNames(last.resp)
    /\ "Access-Control-Max-Age" \notin HeaderNames(last.resp)
    /\ n[1] = 4

----------------------------------------------------------------------------
(* C12 *)

\* a later call has registered its own nonce for the port session s used
ReRegistered(s) ==
    \E u \in Sessions :
      /\ u # s /\ port[u] = port[s]
      /\ cpc[u] \in {"spawn", "return", "returned"}

C12_InvPart ==
    \A s \in Sessions :
      /\ EventsOf(s) # {} =>
           \/ port[s] \notin DOMAIN registry
           \/ wpc[s] = "done" /\ ReRegistered(s)
      /\ (EventsOf(s) # {} /\ wpc[s] # "done") =>
           /\ wpc[s] \in {"respond", "sleep"}
           /\ Holding(s)
           /\ port[s] \notin DOMAIN registry

C12_StepPart ==
    \A s \in Sessions :
      \* the removal comes first: no event yet, no 200 yet
      /\ (wpc[s] = "remove" /\ wpc'[s] # "remove")
           => /\ port[s] \in DOMAIN registry
              /\ port[s] \notin DOMAIN registry'
              /\ EventsOf(s) = {} /\ events' = events /\ last' = last
              /\ wpc'[s] = "emit"
      \* then the event: the entry is gone, the 200 is not yet written
      /\ EventsOf(s)' # EventsOf(s)
           => /\ wpc[s] = "emit" /\ wpc'[s] = "respond"
              /\ port[s] \notin DOMAIN registry
              /\ registry' = registry /\ last' = last
      \* then the 200: the event is out, the port still held
      /\ (Answers(s) /\ last'.resp.status = 200)
           => /\ wpc[s] = "respond" /\ wpc'[s] = "sleep"
              /\ EventsOf(s) # {} /\ events' = events
              /\ Holding(s) /\ Holding(s)'
      /\ (wpc'[s] = "sleep" /\ wpc[s] # "sleep")
           => Answers(s) /\ last'.resp = RespSuccess
      \* and only then the port is released
      /\ (Holding(s) /\ ~Holding(s)' /\ Validated(s))
           => wpc[s] = "sleep" /\ wpc'[s] = "done"

\* C12: on the success path the worker removes the registry entry of its
\* port, then emits the event, then writes the 200, and only after the delay
\* ends and releases the port: when the event of a session is emitted, and
\* for as long as the session holds its port afterwards, the registry has no
\* entry for the port (an entry found there later is the one a later call
\* registered for the same port), and the port is released only from the
\* delay that follows the writing of the 200.
C12_SuccessOrder == []C12_InvPart /\ [][C12_StepPart]_vars

\* session 1 went through the whole success path and released its port; the
\* next call bound the same port and registered its own nonce there
C12_Witness ==
    /\ wpc[1] = "done" /\ EventsOf(1) # {}
    /\ port[2] = port[1] /\ wpc[2] = "recv"
    /\ port[1] \in DOMAIN registry

----------------------------------------------------------------------------
(* C13 *)

\* C13 as stated: a worker has ended only if a POST validated or 10 inbound
\* requests were handled; failed accepts are skipped and never bring the
\* session to its end before 10 requests were handled.
C13_ClosedOnlyAfterTenRequests ==
    \A s \in Sessions :
      wpc[s] = "done" => (EventsOf(s) # {} \/ handled[s] >= 10)

----------------------------------------------------------------------------
(* C14 *)

\* the registry has an entry for the port of session s, and it is x
Stored(s, x) == port[s] \in DOMAIN registry /\ registry[port[s]] = x

C14_InvPart ==
    \A s \in Sessions :
      wpc[s] \in {"recv", "lock", "remove"} =>
        /\ expected[s] # <<>>
        /\ Stored(s, expected[s])

C14_StepPart ==
    \A s \in Sessions :
      handled'[s] = handled[s] + 1 =>
        IF wpc'[s] = "lock"
        THEN /\ CompletePost(pend'[s])
             /\ Stored(s, pend'[s].nonce.v)
        ELSE /\ last'.sess = s
             /\ ~(CompletePost(last'.req) /\ Stored(s, last'.req.nonce.v))

\* C14: whenever a worker is receiving or has a request in hand up to the
\* removal, the nonce it captured at the spawn and the registry's entry for
\* its port are both present and equal; so a request takes the success arm
\* exactly when it is a complete POST whose nonce equals the entry stored
\* for the worker's port at that moment.
C14_CapturedEqualsStored == []C14_InvPart /\ [][C14_StepPart]_vars

\* session 1 accepts a POST by its captured nonce, the entry of its port
\* being equal to it, after session 2 has removed its own entry
C14_Witness ==
    /\ wpc[1] = "lock" /\ Stored(1, expected[1])
    /\ pend[1].nonce.v = registry[port[1]]
    /\ wpc[2] = "emit" /\ port[2] \notin DOMAIN registry

----------------------------------------------------------------------------
(* C15 *)

\* the step is one of session s: of its call or of its worker
StepOf(s) ==
    \/ cpc'[s] # cpc[s]
    \/ wpc'[s] # wpc[s]
    \/ n'[s] # n[s]
    \/ handled'[s] # handled[s]

\* the registry's entry for port p is the same before and after the step
EntryKept(p) ==
    /\ (p \in DOMAIN registry) <=> (p \in DOMAIN registry')
    /\ p \in DOMAIN registry => registry'[p] = registry[p]

C15_InvPart ==
    /\ \A s, u \in Sessions :
         (s # u /\ Holding(s) /\ Holding(u)) => port[s] # port[u]
    /\ \A i \in 1..Len(events) :
         LET s == events[i].sess IN
           /\ s \in Sessions
           /\ SubSeq(events[i].payload, 1, 6) =
                <<"http://localhost:">> \o Dec(port[s])

C15_StepPart ==
    \A s \in Sessions :
      /\ StepOf(s) =>
           \A u \in Sessions \ {s} :
             /\ Holding(u) => EntryKept(port[u])
             /\ EventsOf(u)' = EventsOf(u)
             /\ wpc'[u] = wpc[u] /\ pend'[u] = pend[u]
             /\ expected'[u] = expected[u] /\ n'[u] = n[u]
      \* a request received on the port of s emits nothing by itself, and is
      \* taken to the success arm of s only with the nonce of s
      /\ handled'[s] = handled[s] + 1 =>
           /\ events' = events
           /\ pend'[s] # NoReq =>
                CompletePost(pend'[s]) /\ pend'[s].nonce.v = nonce[s]
      \* an event of s is emitted by the worker of s, for the POST it took
      /\ EventsOf(s)' # EventsOf(s) =>
           /\ wpc[s] = "emit"
           /\ CompletePost(pend[s]) /\ pend[s].nonce.v = nonce[s]
           /\ events' = Append(events,
                [sess |-> s, name |-> "oauth-callback",
                 payload |-> <<"http://localhost:">> \o Dec(port[s])
                    \o <<"?code=">> \o urlencode(pend[s].code.v)
                    \o <<"&state=">> \o urlencode(pend[s].state.v)])

\* C15: sessions that hold a port at the same time hold different ports; a
\* step of one session - a request received on its port included - leaves
\* the registry entry of every other session that holds a port as it was,
\* emits no event of another session and does not touch another worker; and
\* an event of a session is emitted only by its own worker, for a complete
\* POST that worker received on its own port with the session's own nonce,
\* and names the session's own port.
C15_SessionsIsolated == []C15_InvPart /\ [][C15_StepPart]_vars

\* session 1 has succeeded and still holds its port; session 2, on another
\* port, has rejected a POST carrying session 1's nonce and keeps its entry
C15_Witness ==
    /\ wpc[1] \in {"respond", "sleep"} /\ EventsOf(1) # {}
    /\ wpc[2] = "recv" /\ port[2] # port[1] /\ HasOwnEntry(2)
    /\ EventsOf(2) = {}
    /\ last.sess = 2 /\ last.resp = RespInvalidNonce
    /\ last.req.nonce.v = nonce[1]

----------------------------------------------------------------------------
(* C16 *)

\* the worker of session s has ended by using up its iterations
Exhausted(s) == wpc[s] = "done" /\ n[s] = 10 /\ EventsOf(s) = {}

\* a later call has bound the port of session s and registered its nonce there
Overwritten(s) ==
    \E u \in Sessions :
      /\ u > s /\ port[u] = port[s]
      /\ cpc[u] \in {"spawn", "return", "returned"}

\* the entry of an exhausted session stays, with its nonce, until a later
\* call registers the same port
C16_StaleEntryKept ==
    \A s \in Sessions :
      (Exhausted(s) /\ ~Overwritten(s)) => HasOwnEntry(s)

C16_StepPart ==
    \A s, u \in Sessions :
      ( /\ Exhausted(s) /\ u > s /\ port[u] = port[s]
        /\ handled'[u] = handled[u] + 1
        /\ \/ wpc'[u] = "lock" /\ pend'[u].nonce = Str(nonce[s])
           \/ wpc'[u] # "lock" /\ CompletePost(last'.req)
                /\ last'.req.nonce = Str(nonce[s]) )
      => /\ wpc'[u] # "lock"
         /\ last'.resp.status = 403

\* C16 as stated: the entry of a session that used up its attempts is never
\* removed and keeps the dead session's nonce until a later session binds
\* the same port and overwrites it; from then on the old nonce, presented
\* on that port, is rejected.
C16_StaleNonceRejected == []C16_StaleEntryKept /\ [][C16_StepPart]_vars

----------------------------------------------------------------------------
(* C17 *)

\* a thread of session s is inside one of the two blocks that hold the guard
InCritical(s) ==
    \/ cpc[s] = "insert" /\ wpc[s] = "none"
    \/ cpc[s] \in {"return", "returned"} /\ wpc[s] = "remove"

\* the step is one of the thread of session s that holds the guard
HolderSteps(s) ==
    \/ cpc[s] = "insert" /\ cpc'[s] # cpc[s]
    \/ wpc[s] = "remove" /\ wpc'[s] # wpc[s]

C17_InvPart ==
    /\ lock \in {0} \cup Sessions
    /\ \A s \in Sessions :
         /\ lock = s <=> InCritical(s)
         \* the holder needs nothing but its own next step to release the guard
         /\ (lock = s /\ cpc[s] = "insert") => ENABLED InsertNonce(s)
         /\ (lock = s /\ wpc[s] = "remove") => ENABLED RemoveNonce(s)
         \* no thread accepting, answering, emitting or sleeping holds it
         /\ wpc[s] \in {"recv", "lock", "emit", "respond", "sleep", "done"}
              => (lock # s \/ cpc[s] = "insert")
    \* a thread waiting for the guard can take it, or its holder can release it
    /\ (\E s \in Sessions : cpc[s] = "lock" \/ wpc[s] = "lock")
         => \/ lock = 0
            \/ ENABLED InsertNonce(lock)
            \/ ENABLED RemoveNonce(lock)

C17_StepPart ==
    \A s \in Sessions :
      \* the guard is taken for the step that follows and for nothing else
      /\ (lock = s /\ HolderSteps(s)) =>
           /\ lock' = 0
           /\ events' = events /\ last' = last /\ handled' = handled
           /\ \/ cpc[s] = "insert" /\ registry' = Insert(registry, port[s], nonce[s])
              \/ wpc[s] = "remove" /\ registry' = Remove(registry, port[s])
      \* it is taken only when free, by a thread that was waiting for it
      /\ (lock # s /\ lock' = s) =>
           /\ lock = 0
           /\ cpc[s] = "lock" \/ wpc[s] = "lock"
           /\ registry' = registry
      \* and the map is written only under it
      /\ (registry' # registry /\ StepOf(s)) => (lock = s /\ HolderSteps(s))
      /\ (lock = s /\ ~HolderSteps(s)) => lock' = s

\* C17: the guard of the nonce map is held by at most one thread, only from
\* its lock() to the single insert (in the call) or the single remove (on the
\* success arm) that follows, and is released by that very step; no thread
\* holds it while it receives, answers, emits or sleeps; the holder's
\* release needs no request and no other thread, so a thread waiting for the
\* guard is never stuck behind another session's network I/O.
C17_LockShortHeld == []C17_InvPart /\ [][C17_StepPart]_vars

\* the call of session 2 waits for the guard while the worker of session 1
\* holds it for its removal
C17_Witness ==
    /\ lock = 1 /\ wpc[1] = "remove"
    /\ cpc[2] = "lock"

----------------------------------------------------------------------------
(* C18 *)

\* the worker of session s has ended and its port is released
Closed(s) == wpc[s] = "done" /\ ~Holding(s)

\* a receiving worker holds its port and its entry, and only a request or a
\* failed accept takes it out of the receive
C18_ListensUntilRequest ==
    []( wpc[1] = "recv" => (Holding(1) /\ HasOwnEntry(1)) )
    /\ [][ (wpc[1] = "recv" /\ handled'[1] = handled[1] /\ n'[1] = n[1])
             => (wpc'[1] = "recv" /\ Holding(1)' /\ HasOwnEntry(1)') ]_vars

\* C18: when requests keep arriving at a listening session, the session
\* eventually ends and releases its port, having either validated a POST or
\* completed its 10 iterations; and nothing but an arriving request (or a
\* failed accept) ends the listening: as long as none arrives, the worker
\* stays in its receive with the port bound and the registry entry present.
C18_EventuallyClosed ==
    /\ (wpc[1] = "recv") ~> (Closed(1) /\ (EventsOf(1) # {} \/ n[1] = 10))
    /\ C18_ListensUntilRequest

\* the session has ended by a success that came after failed attempts
C18_Witness ==
    /\ Closed(1) /\ EventsOf(1) # {}
    /\ last.sess = 1 /\ last.resp = RespSuccess
    /\ cpc[1] = "returned"

----------------------------------------------------------------------------
(* C19 *)

\* the call of session s has returned the no-available-port error
Failed(s) == cpc[s] = "failed"

C19_InvPart ==
    \A s \in Sessions :
      Failed(s) =>
        /\ port[s] = 0 /\ nonce[s] = <<>> /\ expected[s] = <<>>
        /\ wpc[s] = "none" /\ EventsOf(s) = {}
        /\ lock # s

C19_StepPart ==
    \A s \in Sessions :
      \* the scan that finds no port ends the call with the error, in that
      \* very step, and leaves everything else as it was
      /\ (cpc[s] = "idle" /\ cpc'[s] # "idle" /\ FreePorts = {}) =>
           /\ Failed(s)'
           /\ registry' = registry /\ lock' = lock
           /\ nonce' = nonce /\ expected' = expected
           /\ wpc' = wpc /\ n' = n /\ handled' = handled /\ pend' = pend
           /\ events' = events /\ last' = last
           /\ \A u \in Sessions \ {s} : cpc'[u] = cpc[u] /\ port'[u] = port[u]
      /\ Failed(s)' => (Failed(s) \/ (cpc[s] = "idle" /\ FreePorts = {}))
      \* a failed call does nothing more
      /\ Failed(s) => ~StepOf(s) /\ nonce'[s] = nonce[s] /\ port'[s] = port[s]

\* C19: a call whose scan finds no port of the range to bind ends with the
\* error in that same step and changes nothing: the registry is as it was
\* (nothing inserted, nothing overwritten), no nonce is generated, no worker
\* is spawned, the other sessions are untouched, and the failed call takes no
\* further step.
C19_FailureChangesNothing == []C19_InvPart /\ [][C19_StepPart]_vars

\* the call of session 2 failed while session 1 held the only free port, and
\* session 1 has gone on to validate its POST
C19_Witness ==
    /\ Failed(2)
    /\ port[1] = 17900 /\ wpc[1] = "sleep" /\ EventsOf(1) # {}
    /\ last.sess = 1 /\ last.resp = RespSuccess

----------------------------------------------------------------------------
(* C20 *)

\* the worker of session s has ended after handling 10 requests, none of
\* which validated
TenHandled(s) == wpc[s] = "done" /\ handled[s] = 10

C20_InvPart ==
    \A s \in Sessions :
      /\ handled[s] <= 10
      /\ wpc[s] = "recv" => (handled[s] <= n[s] /\ n[s] < 10)
      /\ (handled[s] = 10 /\ wpc[s] \notin {"lock", "remove", "emit", "respond", "sleep"})
           => /\ TenHandled(s) /\ n[s] = 10
              /\ EventsOf(s) = {}
              /\ \A r \in Requests : ~ENABLED Handle(s, r)

C20_StepPart ==
    \A s \in Sessions :
      \* a request that does not validate uses up exactly one iteration,
      \* whatever it is, and changes nothing else
      /\ (handled'[s] = handled[s] + 1 /\ wpc'[s] # "lock") =>
           /\ n'[s] = n[s] + 1
           /\ wpc'[s] = IF n'[s] = 10 THEN "done" ELSE "recv"
           /\ events' = events /\ registry' = registry /\ pend' = pend
           /\ last'.sess = s
           /\ last'.req.method \notin {"OPTIONS", "POST"} => last'.resp = NoResp
      \* after 10 handled requests the session takes no request and emits
      \* nothing, ever
      /\ TenHandled(s) =>
           /\ TenHandled(s)'
           /\ n'[s] = n[s] /\ pend'[s] = pend[s]
           /\ EventsOf(s)' = {}
           /\ last'.sess # s \/ last' = last

\* C20: every request a worker receives and does not validate - an OPTIONS,
\* a failed POST, a request of another method - uses up exactly one of the 10
\* iterations and, for a method other than OPTIONS and POST, nothing else
\* happens (no answer by the worker, no event, no registry change); so once
\* 10 requests have been handled without a validation the worker has ended:
\* a POST with the session's nonce is no longer received by that session
\* and no event is ever emitted for it.
C20_EveryRequestCounts == []C20_InvPart /\ [][C20_StepPart]_vars

\* ten requests have used up the session without an event; then a POST with
\* the session's nonce was sent to the port and met no worker
C20_Witness ==
    /\ TenHandled(1) /\ n[1] = 10 /\ events = <<>>
    /\ HasOwnEntry(1)
    /\ last.sess = 0 /\ last.port = port[1]
    /\ CompletePost(last.req) /\ last.req.nonce.v = nonce[1]

====
